---- MODULE Spec2Model ----
(***************************************************************************)
(* Model of bevy_symbios_ground: HeightMapMeshBuilder::build (mesher.rs),  *)
(* splat_to_image and sync_splat_texture (splat.rs).                       *)
(*                                                                         *)
(* Numbers.  Heights, the grid scale and world coordinates are f32 in the  *)
(* source; here they are fixed-point: the integer m in heightmap.scale or  *)
(* heightmap.data stands for the f32 value m * 2^-unit_log (unit_log = 0:  *)
(* whole world units, as in the tests; larger unit_log: a height map of    *)
(* tiny extent).  Scaling by a power of two is exact in f32, so every      *)
(* product and sum of the source is exact here.  A position is in units of *)
(* 2^-unit_log, a Sobel vector (-gx, 8*s, -gz) too (dimension 1), a cross  *)
(* product of two edges in units of 2^(-2*unit_log) (dimension 2).  A      *)
(* normalized vector n / |n| is kept as the pair [dir |-> n, len2 |-> n.n] *)
(* and denotes the vector dir / sqrt(len2), whatever the unit of n.        *)
(* f32::EPSILON is 2^-23, so for an integer vector n of dimension d        *)
(* "len > f32::EPSILON" is "n.n > 2^(2*d*unit_log - 46)".  uv_tile_size is *)
(* a fraction <<num, den>> of whole world units, because its clamp value   *)
(* f32::EPSILON is not an integer.                                         *)
(***************************************************************************)
EXTENDS Integers, Naturals, Sequences, FiniteSets, TLC

\* ---------------------------------------------------------------- bounds
MaxW == 3
MaxH == 3
MaxScale == 2
MaxWW == 3
MaxWH == 2

\* ------------------------------------------------------- program constants
\* f32::EPSILON = 2^-23 = 1 / EpsilonDen = 2^-EpsilonLog
EpsilonDen == 8388608
EpsilonLog == 23
\* u8 arithmetic of the weight-map test pattern: (i % 256) as u8
ByteMod == 256
\* the height written by map.set(1, 1, 5.0) in positions_encode_height_data
SpikeHeight == 5

\* heightmap, builder : the arguments of build;  mesh : its result, <<>> (none)
\*   or <<m>>;  pc : "ready", "built" or "panicked"
\* unit_log : the fixed-point exponent of the f32 values in heightmap (scale
\*   and heights are multiples of 2^-unit_log world units)
\* settings : GroundMaterialSettings;  images : what SplatTexture.handle
\*   resolves to in Assets<Image>, <<>> (None) or <<image>>
\* upload_requested : history, new() or mark_dirty() was called and no sync
\*   has uploaded since;  last_call : history, the most recent operation and,
\*   for sync_splat_texture, the return path it took
VARIABLES heightmap, unit_log, builder, mesh, pc,
          settings, images, upload_requested, last_call

vars == <<heightmap, unit_log, builder, mesh, pc,
          settings, images, upload_requested, last_call>>
meshVars == <<heightmap, unit_log, builder, mesh, pc>>
splatVars == <<settings, images, upload_requested, last_call>>

\* ------------------------------------------------------------ Vec3 helpers
Vec3Sub(a, b) == <<a[1] - b[1], a[2] - b[2], a[3] - b[3]>>
Vec3Add(a, b) == <<a[1] + b[1], a[2] + b[2], a[3] + b[3]>>
Vec3Cross(a, b) == <<a[2] * b[3] - a[3] * b[2],
                     a[3] * b[1] - a[1] * b[3],
                     a[1] * b[2] - a[2] * b[1]>>
Vec3Dot(a, b) == a[1] * b[1] + a[2] * b[2] + a[3] * b[3]
Vec3Zero == <<0, 0, 0>>

\* ------------------------------------------------------ HeightMap accessor
\* HeightMap::get(x, z): row-major data[z * width + x] (sequences are 1-based)
get(hm, x, z) == hm.data[z * hm.width + x + 1]

\* HeightMap::new(w, h, scale): all heights zero
flat_map(w, h, scale) ==
    [width |-> w, height |-> h, scale |-> scale,
     data |-> [i \in 1..(w * h) |-> 0]]

\* a plane c + kx*x + kz*z written with map.set in row-major loops
\* (ramp_map of the tests is c = 0, kx = scale, kz = 0)
ramp_map(w, h, scale, c, kx, kz) ==
    [width |-> w, height |-> h, scale |-> scale,
     data |-> [i \in 1..(w * h) |->
                 c + kx * ((i - 1) % w) + kz * ((i - 1) \div w)]]

\* HeightMap::set(x, z, v)
set(hm, x, z, v) ==
    [hm EXCEPT !.data = [hm.data EXCEPT ![z * hm.width + x + 1] = v]]

\* base heights and slopes of the planes a build starts from; the slopes
\* along x reach the largest scale, since the ramp of the tests rises by
\* `scale` per cell
Bases == {0, 1}
Slopes == (-1)..MaxScale
ZSlopes == {-1, 0, 1}

\* the magnitudes of the f32 values in a height map: whole world units
\* (scale 1.0 and 2.0, heights like 5.0, as in the tests), units of 2^-14
\* (a scale near 1e-4, where a sum of cross products can be shorter than
\* f32::EPSILON), and units of 2^-26 (a scale near 1e-8, where the Sobel
\* vector can be)
UnitLogs == {0, 14, 26}

\* the height maps handed to build: a plane, or a plane through the origin
\* with one cell set
IsInputHeightMap(hm) ==
    \E w \in 1..MaxW, h \in 1..MaxH, s \in 1..MaxScale,
       kx \in Slopes, kz \in ZSlopes :
        \/ \E c \in Bases : hm = ramp_map(w, h, s, c, kx, kz)
        \/ \E x \in 0..(w - 1), z \in 0..(h - 1) :
              hm = set(ramp_map(w, h, s, 0, kx, kz), x, z, SpikeHeight)

\* --------------------------------------------------- HeightMapMeshBuilder
\* Default for HeightMapMeshBuilder
builder_default == [uv_tile_size |-> <<1, 1>>, normal_method |-> "AreaWeighted"]

\* size.max(f32::EPSILON) for an integer size
with_uv_tile_size(b, size) ==
    [b EXCEPT !.uv_tile_size = IF size >= 1 THEN <<size, 1>>
                               ELSE <<1, EpsilonDen>>]

with_normal_method(b, method) == [b EXCEPT !.normal_method = method]

NormalMethods == {"AreaWeighted", "Sobel"}

\* sizes passed to with_uv_tile_size: 0 (clamped) and the 4.0 of the tests
TileSizes == {0, 4}

\* the assert! at the head of build
BuildPrecondition_OrMutant(hm) == hm.width >= 2 \/ hm.height >= 2
BuildPrecondition(hm) == hm.width >= 2 /\ hm.height >= 2

\* vertex loop: positions.push([world_x, world_y, world_z]), z outer, x inner
positions_SwappedMutant(hm) ==
    [i \in 1..(hm.width * hm.height) |->
        LET x == (i - 1) \div hm.height
            z == (i - 1) % hm.height
        IN <<x * hm.scale, hm.data[i], z * hm.scale>>]
build_positions(hm) ==
    [i \in 1..(hm.width * hm.height) |->
        LET x == (i - 1) % hm.width
            z == (i - 1) \div hm.width
        IN <<x * hm.scale, get(hm, x, z), z * hm.scale>>]

\* vertex loop: uvs.push([world_x / uv_tile_size, world_z / uv_tile_size]);
\* each coordinate is the fraction <<numerator, denominator>>
build_uvs(hm, tile, ulog) ==
    [i \in 1..(hm.width * hm.height) |->
        LET x == (i - 1) % hm.width
            z == (i - 1) \div hm.width
        IN << <<x * hm.scale * tile[2], tile[1] * 2^ulog>>,
              <<z * hm.scale * tile[2], tile[1] * 2^ulog>> >>]

\* the six indices pushed for quad (x, z)
quad_indices_ClockwiseMutant(w, x, z) ==
    LET tl == z * w + x
        tr == z * w + x + 1
        bl == (z + 1) * w + x
        br == (z + 1) * w + x + 1
    IN <<tl, tr, bl, tr, br, bl>>
quad_indices(w, x, z) ==
    LET tl == z * w + x
        tr == z * w + x + 1
        bl == (z + 1) * w + x
        br == (z + 1) * w + x + 1
    IN <<tl, bl, tr, tr, bl, br>>

\* index loop: for z in 0..(h-1) { for x in 0..(w-1) { push 6 } }
RECURSIVE indices_from(_, _, _)
indices_from(q, w, h) ==
    IF q >= (w - 1) * (h - 1) THEN <<>>
    ELSE quad_indices(w, q % (w - 1), q \div (w - 1))
         \o indices_from(q + 1, w, h)

build_indices_SkipMutant(w, h) == indices_from(1, w, h)
build_indices(w, h) == indices_from(0, w, h)

\* the guard `len > f32::EPSILON` for a vector of squared integer length
\* len2 and dimension dim: len = sqrt(len2) * 2^(-dim * ulog), so the guard
\* is len2 > 2^e with e = 2 * dim * ulog - 2 * EpsilonLog.  For e < 0 the
\* right side is below 1, and an integer exceeds it when it is at least 1;
\* for e > 30 no squared length of the model reaches it.
ExceedsEpsilon(len2, dim, ulog) ==
    LET e == 2 * dim * ulog - 2 * EpsilonLog
    IN IF e < 0 THEN len2 >= 1
       ELSE IF e > 30 THEN FALSE
       ELSE len2 > 2^e

\* if len > f32::EPSILON { n / len } else { [0, 1, 0] }
normalize_ZeroGuardMutant(n, dim, ulog) ==
    LET len2 == Vec3Dot(n, n)
    IN IF len2 >= 1 THEN [dir |-> n, len2 |-> len2]
       ELSE [dir |-> <<0, 1, 0>>, len2 |-> 1]
normalize(n, dim, ulog) ==
    LET len2 == Vec3Dot(n, n)
    IN IF ExceedsEpsilon(len2, dim, ulog) THEN [dir |-> n, len2 |-> len2]
       ELSE [dir |-> <<0, 1, 0>>, len2 |-> 1]

\* one iteration of `for tri in indices.chunks_exact(3)`
accumulate_tri_FirstOnlyMutant(acc, pos, i0, i1, i2) ==
    LET p0 == pos[i0 + 1]
        p1 == pos[i1 + 1]
        p2 == pos[i2 + 1]
        face_normal == Vec3Cross(Vec3Sub(p1, p0), Vec3Sub(p2, p0))
    IN [acc EXCEPT ![i0 + 1] = Vec3Add(@, face_normal)]
accumulate_tri(acc, pos, i0, i1, i2) ==
    LET p0 == pos[i0 + 1]
        p1 == pos[i1 + 1]
        p2 == pos[i2 + 1]
        face_normal == Vec3Cross(Vec3Sub(p1, p0), Vec3Sub(p2, p0))
    IN [acc EXCEPT ![i0 + 1] = Vec3Add(@, face_normal),
                   ![i1 + 1] = Vec3Add(@, face_normal),
                   ![i2 + 1] = Vec3Add(@, face_normal)]

RECURSIVE accumulate_from(_, _, _, _)
accumulate_from(t, acc, pos, idx) ==
    IF 3 * t + 3 > Len(idx) THEN acc
    ELSE accumulate_from(t + 1,
            accumulate_tri(acc, pos, idx[3 * t + 1], idx[3 * t + 2], idx[3 * t + 3]),
            pos, idx)

\* the accumulation loop over all triangles, from zeroed accumulators
accumulate(pos, idx) ==
    accumulate_from(0, [i \in 1..Len(pos) |-> Vec3Zero], pos, idx)

\* NormalMethod::AreaWeighted arm of build; the accumulated vectors are sums
\* of cross products of position differences (dimension 2)
area_weighted_FlippedMutant(pos, idx, ulog) ==
    LET acc == accumulate(pos, idx)
    IN [i \in 1..Len(pos) |-> normalize(Vec3Sub(Vec3Zero, acc[i]), 2, ulog)]
area_weighted_normals(pos, idx, ulog) ==
    LET acc == accumulate(pos, idx)
    IN [i \in 1..Len(pos) |-> normalize(acc[i], 2, ulog)]

\* i32::clamp
clamp(v, lo, hi) == IF v < lo THEN lo ELSE IF v > hi THEN hi ELSE v

\* the `sample` closure of compute_normals_sobel
sample_WrapMutant(hm, xi, zi, dx, dz) ==
    LET nx == (xi + dx + hm.width) % hm.width
        nz == (zi + dz + hm.height) % hm.height
    IN get(hm, nx, nz)
sample(hm, xi, zi, dx, dz) ==
    LET nx == clamp(xi + dx, 0, hm.width - 1)
        nz == clamp(zi + dz, 0, hm.height - 1)
    IN get(hm, nx, nz)

sobel_gx_TransposedMutant(hm, xi, zi) ==
    (0 - sample(hm, xi, zi, -1, -1)) - 2 * sample(hm, xi, zi, 0, -1)
    - sample(hm, xi, zi, 1, -1)
    + sample(hm, xi, zi, -1, 1) + 2 * sample(hm, xi, zi, 0, 1)
    + sample(hm, xi, zi, 1, 1)
sobel_gx(hm, xi, zi) ==
    (0 - sample(hm, xi, zi, -1, -1)) + sample(hm, xi, zi, 1, -1)
    + (-2) * sample(hm, xi, zi, -1, 0) + 2 * sample(hm, xi, zi, 1, 0)
    + (0 - sample(hm, xi, zi, -1, 1)) + sample(hm, xi, zi, 1, 1)

sobel_gz(hm, xi, zi) ==
    (0 - sample(hm, xi, zi, -1, -1)) - 2 * sample(hm, xi, zi, 0, -1)
    - sample(hm, xi, zi, 1, -1)
    + sample(hm, xi, zi, -1, 1) + 2 * sample(hm, xi, zi, 0, 1)
    + sample(hm, xi, zi, 1, 1)

\* Vec3::new(-gx, 8.0 * s, -gz): heights and scale (dimension 1)
sobel_vector(hm, xi, zi) ==
    <<0 - sobel_gx(hm, xi, zi), 8 * hm.scale, 0 - sobel_gz(hm, xi, zi)>>

compute_normals_sobel(hm, ulog) ==
    [i \in 1..(hm.width * hm.height) |->
        LET xi == (i - 1) % hm.width
            zi == (i - 1) \div hm.width
        IN normalize(sobel_vector(hm, xi, zi), 1, ulog)]

\* body of build after the assert
build_mesh(b, hm, ulog) ==
    LET pos == build_positions(hm)
        idx == build_indices(hm.width, hm.height)
    IN [topology |-> "TriangleList",
        positions |-> pos,
        normals |-> IF b.normal_method = "AreaWeighted"
                    THEN area_weighted_normals(pos, idx, ulog)
                    ELSE compute_normals_sobel(hm, ulog),
        uvs |-> build_uvs(hm, b.uv_tile_size, ulog),
        indices |-> idx]

\* ------------------------------------------------------------- WeightMap
\* WeightMap::new(w, h): every pixel [0, 0, 0, 0]
weight_map_new(w, h) ==
    [width |-> w, height |-> h, data |-> [i \in 1..(w * h) |-> <<0, 0, 0, 0>>]]

\* make_weight_map of the tests (i is 0-based there)
make_weight_map(w, h) ==
    [width |-> w, height |-> h,
     data |-> [k \in 1..(w * h) |->
                 LET i == k - 1
                 IN <<i % ByteMod, (i + 64) % ByteMod,
                      (i + 128) % ByteMod, (i + 192) % ByteMod>>]]

\* wm.data[i] = pixel (i is 0-based)
set_pixel(wm, i, pixel) == [wm EXCEPT !.data = [wm.data EXCEPT ![i + 1] = pixel]]

TestPixels == {<<10, 20, 30, 40>>, <<100, 150, 200, 250>>}

BaseWeightMaps ==
    { weight_map_new(w, h) : w \in 1..MaxWW, h \in 1..MaxWH }
    \cup { make_weight_map(w, h) : w \in 1..MaxWW, h \in 1..MaxWH }

\* the maps of a set with one more pixel written
WithPixelSet(maps) ==
    UNION { { set_pixel(wm, i, px) : i \in 0..(wm.width * wm.height - 1),
                                     px \in TestPixels }
            : wm \in maps }

\* a base map with at most two pixels written, as the round-trip test does
\* (data[0] and data[5])
WeightMaps ==
    BaseWeightMaps \cup WithPixelSet(BaseWeightMaps)
    \cup WithPixelSet(WithPixelSet(BaseWeightMaps))

\* ------------------------------------------------------------------ splat
\* weight_map.data.iter().flat_map(|pixel| pixel.iter().copied()).collect()
RECURSIVE flatten(_)
flatten(data) == IF data = <<>> THEN <<>> ELSE Head(data) \o flatten(Tail(data))

splat_to_image_TransposedMutant(weight_map) ==
    [width |-> weight_map.height,
     height |-> weight_map.width,
     depth_or_array_layers |-> 1,
     dimension |-> "D2",
     data |-> flatten(weight_map.data),
     format |-> "Rgba8Unorm",
     address_mode_u |-> "ClampToEdge",
     address_mode_v |-> "ClampToEdge"]
splat_to_image(weight_map) ==
    [width |-> weight_map.width,
     height |-> weight_map.height,
     depth_or_array_layers |-> 1,
     dimension |-> "D2",
     data |-> flatten(weight_map.data),
     format |-> "Rgba8Unorm",
     address_mode_u |-> "ClampToEdge",
     address_mode_v |-> "ClampToEdge"]

\* GroundMaterialSettings::new
settings_new(weight_map) == [weight_map |-> weight_map, dirty |-> TRUE]

\* the part of sync_splat_texture after the image is resolved
upload(image, weight_map) ==
    LET expected_bytes == weight_map.width * weight_map.height * 4
        resized == IF Len(image.data) # expected_bytes
                   THEN [image EXCEPT !.width = weight_map.width,
                                      !.height = weight_map.height,
                                      !.depth_or_array_layers = 1]
                   ELSE image
    IN [resized EXCEPT !.data = flatten(weight_map.data)]

\* ---------------------------------------------------------------- states
InitMeshIdle ==
    /\ heightmap = flat_map(2, 2, 1)
    /\ unit_log = 0
    /\ builder = builder_default
    /\ mesh = <<>>
    /\ pc = "ready"

InitSplatIdle ==
    /\ settings = settings_new(weight_map_new(1, 1))
    /\ images = <<>>
    /\ upload_requested = TRUE
    /\ last_call = "new"

\* HeightMapMeshBuilder::new() and a height map to build from
InitMesh ==
    /\ IsInputHeightMap(heightmap)
    /\ unit_log \in UnitLogs
    /\ builder = builder_default
    /\ mesh = <<>>
    /\ pc = "ready"
    /\ InitSplatIdle

\* GroundMaterialSettings::new(weight_map), handle not yet resolved
InitPack ==
    /\ settings \in { settings_new(wm) : wm \in WeightMaps }
    /\ images = <<>>
    /\ upload_requested = TRUE
    /\ last_call = "new"
    /\ InitMeshIdle

InitSplat ==
    /\ settings \in { settings_new(wm) : wm \in BaseWeightMaps }
    /\ images = <<>>
    /\ upload_requested = TRUE
    /\ last_call = "new"
    /\ InitMeshIdle

\* ----------------------------------------------------------- mesh actions
WithUvTileSize ==
    /\ pc = "ready"
    /\ \E size \in TileSizes : builder' = with_uv_tile_size(builder, size)
    /\ UNCHANGED <<heightmap, unit_log, mesh, pc, splatVars>>

WithNormalMethod ==
    /\ pc = "ready"
    /\ \E method \in NormalMethods : builder' = with_normal_method(builder, method)
    /\ UNCHANGED <<heightmap, unit_log, mesh, pc, splatVars>>

\* HeightMapMeshBuilder::build
build ==
    /\ pc = "ready"
    /\ IF BuildPrecondition(heightmap)
       THEN /\ mesh' = <<build_mesh(builder, heightmap, unit_log)>>
            /\ pc' = "built"
       ELSE /\ mesh' = <<>>
            /\ pc' = "panicked"
    /\ UNCHANGED <<heightmap, unit_log, builder, splatVars>>

NextMesh == WithUvTileSize \/ WithNormalMethod \/ build

SpecMesh == InitMesh /\ [][NextMesh]_vars

\* ---------------------------------------------------------- splat actions
\* images.add(splat_to_image(&weight_map)) for the current weight map
InsertCurrentImage ==
    /\ images = <<>>
    /\ images' = <<splat_to_image(settings.weight_map)>>
    /\ last_call' = "insert_image"
    /\ UNCHANGED <<settings, upload_requested, meshVars>>

NextPack == InsertCurrentImage

SpecPack == InitPack /\ [][NextPack]_vars

\* images.add(initial_image): the handle starts to resolve
InsertImage ==
    /\ images = <<>>
    /\ \E wm \in BaseWeightMaps : images' = <<splat_to_image(wm)>>
    /\ last_call' = "insert_image"
    /\ UNCHANGED <<settings, upload_requested, meshVars>>

\* the asset is removed: the handle no longer resolves
RemoveImage ==
    /\ images # <<>>
    /\ images' = <<>>
    /\ last_call' = "remove_image"
    /\ UNCHANGED <<settings, upload_requested, meshVars>>

\* settings.weight_map = wm (the field is pub)
SetWeightMap ==
    /\ \E wm \in BaseWeightMaps :
          settings' = [settings EXCEPT !.weight_map = wm]
    /\ last_call' = "set_weight_map"
    /\ UNCHANGED <<images, upload_requested, meshVars>>

\* GroundMaterialSettings::mark_dirty
mark_dirty ==
    /\ settings' = [settings EXCEPT !.dirty = TRUE]
    /\ upload_requested' = TRUE
    /\ last_call' = "mark_dirty"
    /\ UNCHANGED <<images, meshVars>>

sync_splat_texture_NoGuardMutant ==
    /\ settings' = [settings EXCEPT !.dirty = FALSE]
    /\ IF images = <<>>
       THEN /\ last_call' = IF settings.dirty THEN "sync_unresolved"
                                               ELSE "sync_skipped"
            /\ UNCHANGED <<images, upload_requested>>
       ELSE /\ images' = <<upload(images[1], settings.weight_map)>>
            /\ upload_requested' = FALSE
            /\ last_call' = IF settings.dirty THEN "sync_uploaded"
                                               ELSE "sync_skipped"
    /\ UNCHANGED meshVars
sync_splat_texture ==
    /\ IF ~settings.dirty
       THEN /\ last_call' = "sync_skipped"
            /\ UNCHANGED <<settings, images, upload_requested>>
       ELSE /\ settings' = [settings EXCEPT !.dirty = FALSE]
            /\ IF images = <<>>
               THEN /\ last_call' = "sync_unresolved"
                    /\ UNCHANGED <<images, upload_requested>>
               ELSE /\ images' = <<upload(images[1], settings.weight_map)>>
                    /\ upload_requested' = FALSE
                    /\ last_call' = "sync_uploaded"
    /\ UNCHANGED meshVars

NextSplat ==
    \/ InsertImage
    \/ RemoveImage
    \/ SetWeightMap
    \/ mark_dirty
    \/ sync_splat_texture

SpecSplat == InitSplat /\ [][NextSplat]_vars

\* ------------------------------------------------------------- properties
Built == pc = "built"
W == heightmap.width
H == heightmap.height
Image == images[1]
IsFlat(hm) == \A i \in 1..Len(hm.data) : hm.data[i] = hm.data[1]
\* whether a vector of the given dimension, in the units of the current
\* height map, is longer than f32::EPSILON
LongerThanEpsilon(n, dim) == ExceedsEpsilon(Vec3Dot(n, n), dim, unit_log)
IsRamp(hm) ==
    \E k \in Slopes \ {0} :
        \A x \in 0..(hm.width - 1), z \in 0..(hm.height - 1) : get(hm, x, z) = k * x
SyncCalls == {"sync_skipped", "sync_unresolved", "sync_uploaded"}

\* C1: for a height map with w >= 2 and h >= 2, and either normal method,
\* build returns a mesh with w*h positions, w*h normals, w*h UVs and
\* (w-1)*(h-1)*6 indices, each index in 0..w*h-1.
C1_MeshCounts ==
    (pc # "ready" /\ W >= 2 /\ H >= 2) =>
        /\ Built
        /\ Len(mesh) = 1
        /\ Len(mesh[1].positions) = W * H
        /\ Len(mesh[1].normals) = W * H
        /\ Len(mesh[1].uvs) = W * H
        /\ Len(mesh[1].indices) = (W - 1) * (H - 1) * 6
        /\ \A k \in 1..Len(mesh[1].indices) :
              mesh[1].indices[k] >= 0 /\ mesh[1].indices[k] < W * H

C1_Witness ==
    Built /\ W = 3 /\ H = 2 /\ builder.normal_method = "Sobel"
    /\ Len(mesh[1].indices) = 12

\* C2: build on a height map whose width < 2 or whose height < 2 (one of
\* them alone is enough) panics and never returns a mesh.
C2_PanicsBelow2x2 ==
    (pc # "ready" /\ (W < 2 \/ H < 2)) => (pc = "panicked" /\ mesh = <<>>)

C2_Witness ==
    pc = "panicked" /\ W = 1 /\ H = 3 /\ mesh = <<>>

\* C3: the vertex at index z*w+x has position (x*scale, get(x,z), z*scale);
\* vertex 0 is at (0, get(0,0), 0) and the last vertex at
\* ((w-1)*scale, get(w-1,h-1), (h-1)*scale).
C3_PositionsRowMajor ==
    Built =>
        /\ \A x \in 0..(W - 1), z \in 0..(H - 1) :
              mesh[1].positions[z * W + x + 1] =
                  <<x * heightmap.scale, get(heightmap, x, z), z * heightmap.scale>>
        /\ mesh[1].positions[1] = <<0, get(heightmap, 0, 0), 0>>
        /\ mesh[1].positions[Len(mesh[1].positions)] =
              <<(W - 1) * heightmap.scale, get(heightmap, W - 1, H - 1),
                (H - 1) * heightmap.scale>>

C3_Witness ==
    Built /\ W = 3 /\ H = 2 /\ heightmap.scale = 2
    /\ get(heightmap, 2, 1) = SpikeHeight
    /\ mesh[1].positions[6] = <<4, SpikeHeight, 2>>

\* C4: splat_to_image gives a buffer of exactly w*h*4 bytes whose byte
\* 4*i+c is weight_map.data[i][c], and declares width w and height h.
C4_PackRoundTrip ==
    images # <<>> =>
        LET wm == settings.weight_map
        IN /\ Len(Image.data) = wm.width * wm.height * 4
           /\ \A i \in 0..(wm.width * wm.height - 1), c \in 0..3 :
                 Image.data[4 * i + c + 1] = wm.data[i + 1][c + 1]
           /\ Image.width = wm.width
           /\ Image.height = wm.height

C4_Witness ==
    /\ images # <<>>
    /\ settings.weight_map.width = 3 /\ settings.weight_map.height = 2
    /\ settings.weight_map.data[6] = <<100, 150, 200, 250>>
    /\ Image.data[21] = 100 /\ Image.data[24] = 250

\* C5: the image returned by splat_to_image has address mode Repeat on U
\* and on V.
C5_RepeatSampling ==
    images # <<>> =>
        (Image.address_mode_u = "Repeat" /\ Image.address_mode_v = "Repeat")

\* C6: a sync that runs with dirty = true while the handle does not resolve
\* leaves dirty true (and the upload request outstanding).
C6_UnresolvedKeepsDirty ==
    last_call = "sync_unresolved" => (settings.dirty /\ upload_requested)

\* C7: a sync that runs with dirty = false changes neither the image, nor
\* the weight map, nor the dirty flag, and performs no re-pack.
C7_CleanSyncIsNoop ==
    [][(~settings.dirty /\ sync_splat_texture) =>
          (UNCHANGED <<settings, images, upload_requested>>
           /\ last_call' = "sync_skipped")]_vars

C7_Witness ==
    /\ last_call = "sync_skipped"
    /\ ~settings.dirty
    /\ images # <<>>
    /\ Image.data # flatten(settings.weight_map.data)

\* C8: new and mark_dirty leave dirty = true, and the next sync at which the
\* handle resolves uploads the freshly packed current weight map and clears
\* dirty: after a sync with the handle resolved no request is outstanding.
C8_RequestedUploadHappens ==
    /\ last_call \in {"new", "mark_dirty"} => settings.dirty
    /\ (last_call \in SyncCalls /\ images # <<>>) =>
          /\ ~upload_requested
          /\ ~settings.dirty
          /\ last_call = "sync_uploaded" =>
                Image.data = flatten(settings.weight_map.data)

\* C9: on a height map of constant height every normal, with either method,
\* has x = 0, z = 0 and y > 0.99 (y > 0 and y^2 > 0.9801 * len^2).
C9_FlatNormalsUp ==
    (Built /\ IsFlat(heightmap)) =>
        \A i \in 1..Len(mesh[1].normals) :
            LET n == mesh[1].normals[i]
            IN /\ n.dir[1] = 0
               /\ n.dir[3] = 0
               /\ n.dir[2] > 0
               /\ 10000 * n.dir[2] * n.dir[2] > 9801 * n.len2

C9_Witness ==
    /\ Built /\ IsFlat(heightmap) /\ heightmap.data[1] = 1
    /\ W = 3 /\ H = 3 /\ heightmap.scale = 2
    /\ builder.normal_method = "AreaWeighted"
    /\ mesh[1].normals[5].dir = <<0, 24, 0>>

\* C11: the index list is, for the quads (x,z) in row-major order (z outer,
\* x inner), the six indices tl,bl,tr,tr,bl,br; on flat terrain the cross
\* product (p1-p0) x (p2-p0) of every emitted triangle points toward +Y.
C11_QuadOrderAndWinding ==
    Built =>
        /\ \A x \in 0..(W - 2), z \in 0..(H - 2) :
              LET base == 6 * (z * (W - 1) + x)
                  tl == z * W + x
                  tr == z * W + x + 1
                  bl == (z + 1) * W + x
                  br == (z + 1) * W + x + 1
              IN /\ base + 6 <= Len(mesh[1].indices)
                 /\ <<mesh[1].indices[base + 1], mesh[1].indices[base + 2],
                      mesh[1].indices[base + 3], mesh[1].indices[base + 4],
                      mesh[1].indices[base + 5], mesh[1].indices[base + 6]>>
                    = <<tl, bl, tr, tr, bl, br>>
        /\ IsFlat(heightmap) =>
              \A t \in 0..((Len(mesh[1].indices) \div 3) - 1) :
                  LET p0 == mesh[1].positions[mesh[1].indices[3 * t + 1] + 1]
                      p1 == mesh[1].positions[mesh[1].indices[3 * t + 2] + 1]
                      p2 == mesh[1].positions[mesh[1].indices[3 * t + 3] + 1]
                      c == Vec3Cross(Vec3Sub(p1, p0), Vec3Sub(p2, p0))
                  IN c[1] = 0 /\ c[3] = 0 /\ c[2] > 0

C11_Witness ==
    /\ Built /\ IsFlat(heightmap) /\ W = 3 /\ H = 3
    /\ SubSeq(mesh[1].indices, 7, 12) = <<1, 4, 2, 2, 4, 5>>
    /\ Len(mesh[1].indices) = 24

\* the raw cross product (p1-p0) x (p2-p0) of the t-th emitted triangle
\* (t from 0) of a mesh, and whether vertex v is one of its corners
FaceNormal(m, t) ==
    LET p0 == m.positions[m.indices[3 * t + 1] + 1]
        p1 == m.positions[m.indices[3 * t + 2] + 1]
        p2 == m.positions[m.indices[3 * t + 3] + 1]
    IN Vec3Cross(Vec3Sub(p1, p0), Vec3Sub(p2, p0))
HasCorner(m, t, v) ==
    v = m.indices[3 * t + 1] \/ v = m.indices[3 * t + 2] \/ v = m.indices[3 * t + 3]

\* the sum, taken from the last triangle back to the first, of the face
\* normals of the triangles 0..t that have corner v
RECURSIVE SumFacesBackward(_, _, _, _)
SumFacesBackward(m, v, t, sum) ==
    IF t < 0 THEN sum
    ELSE SumFacesBackward(m, v, t - 1,
            IF HasCorner(m, t, v) THEN Vec3Add(sum, FaceNormal(m, t)) ELSE sum)

FaceSum(m, v) == SumFacesBackward(m, v, (Len(m.indices) \div 3) - 1, Vec3Zero)

\* C12: with AreaWeighted, the vector normalized for vertex v is the sum of
\* the raw cross products of all emitted triangles that contain v, each
\* triangle giving the same vector to its three corners; the sum is the same
\* when the triangles are taken in the opposite order.
\* (The accumulated vector is compared for every vertex; the emitted normal
\* shows it whenever it is longer than f32::EPSILON.)
C12_AreaWeightedIsFaceSum ==
    (Built /\ builder.normal_method = "AreaWeighted") =>
        LET acc == accumulate(mesh[1].positions, mesh[1].indices)
        IN \A v \in 0..(W * H - 1) :
              LET sum == FaceSum(mesh[1], v)
              IN /\ acc[v + 1] = sum
                 /\ LongerThanEpsilon(sum, 2) =>
                       /\ mesh[1].normals[v + 1].dir = sum
                       /\ mesh[1].normals[v + 1].len2 = Vec3Dot(sum, sum)

C12_Witness ==
    /\ Built /\ builder.normal_method = "AreaWeighted"
    /\ W = 3 /\ H = 3 /\ ~IsFlat(heightmap)
    /\ get(heightmap, 1, 1) = SpikeHeight
    /\ mesh[1].normals[5].dir = FaceSum(mesh[1], 4)
    /\ mesh[1].normals[5].dir[1] # 0

\* the Sobel kernels, rows dz = -1, 0, 1 and columns dx = -1, 0, 1
KernelX == << <<-1, 0, 1>>, <<-2, 0, 2>>, <<-1, 0, 1>> >>
KernelZ == << <<-1, -2, -1>>, <<0, 0, 0>>, <<1, 2, 1>> >>

\* the index of 0..n-1 nearest to v
Min(a, b) == IF a <= b THEN a ELSE b
Max(a, b) == IF a >= b THEN a ELSE b
NearestIndex(v, n) == Max(0, Min(v, n - 1))

\* the height the kernels see at offset (dx, dz) from (x, z)
ClampedHeight(x, z, dx, dz) ==
    heightmap.data[NearestIndex(z + dz, H) * W + NearestIndex(x + dx, W) + 1]

KernelRow(K, x, z, dz) ==
    K[dz + 2][1] * ClampedHeight(x, z, -1, dz)
    + K[dz + 2][2] * ClampedHeight(x, z, 0, dz)
    + K[dz + 2][3] * ClampedHeight(x, z, 1, dz)
Convolve(K, x, z) ==
    KernelRow(K, x, z, -1) + KernelRow(K, x, z, 0) + KernelRow(K, x, z, 1)

SobelRaw(x, z) ==
    <<0 - Convolve(KernelX, x, z), 8 * heightmap.scale, 0 - Convolve(KernelZ, x, z)>>

\* C13: with Sobel, at every vertex (edges and corners included) the 3x3
\* samples are the heights at the coordinates clamped to the grid, never
\* wrapped or out of range, and the vector normalized is (-gx, 8*scale, -gz)
\* for the two kernels applied to those samples.  (The vector is compared
\* at every vertex; the emitted normal shows it whenever it is longer than
\* f32::EPSILON.)
C13_SobelClampedKernels ==
    (Built /\ builder.normal_method = "Sobel") =>
        \A x \in 0..(W - 1), z \in 0..(H - 1) :
            /\ \A dx \in {-1, 0, 1}, dz \in {-1, 0, 1} :
                  /\ NearestIndex(x + dx, W) \in 0..(W - 1)
                  /\ NearestIndex(z + dz, H) \in 0..(H - 1)
                  /\ sample(heightmap, x, z, dx, dz) = ClampedHeight(x, z, dx, dz)
            /\ LET raw == SobelRaw(x, z)
               IN /\ sobel_vector(heightmap, x, z) = raw
                  /\ LongerThanEpsilon(raw, 1) =>
                        /\ mesh[1].normals[z * W + x + 1].dir = raw
                        /\ mesh[1].normals[z * W + x + 1].len2 = Vec3Dot(raw, raw)

C13_Witness ==
    /\ Built /\ builder.normal_method = "Sobel"
    /\ W = 3 /\ H = 3 /\ heightmap.scale = 2
    /\ IsRamp(heightmap) /\ get(heightmap, 1, 0) = 1
    /\ mesh[1].normals[1].dir = <<-4, 16, 0>>
    /\ mesh[1].normals[5].dir = <<-8, 16, 0>>

\* the unnormalized vector of vertex v (from 0) under the selected method
RawNormal(v) ==
    IF builder.normal_method = "Sobel" THEN SobelRaw(v % W, v \div W)
    ELSE FaceSum(mesh[1], v)
\* its dimension: heights for Sobel, products of two lengths for AreaWeighted
RawDim == IF builder.normal_method = "Sobel" THEN 1 ELSE 2

\* C10 as the specification states it: on a ramp height(x,z) = k*x with
\* k # 0, the normal of every interior vertex has a non-zero x component,
\* with either method.
C10_RampNormalsLean ==
    (Built /\ IsRamp(heightmap)) =>
        \A x \in 1..(W - 2), z \in 1..(H - 2) :
            mesh[1].normals[z * W + x + 1].dir[1] # 0

\* C10, amended: on a ramp height(x,z) = k*x with k # 0, with either method,
\* the unnormalized vector of every interior vertex has a non-zero x
\* component; the normal has a non-zero x component when that vector is
\* longer than f32::EPSILON, and is exactly (0,1,0), x = 0, when it is not.
C10_RampNormalsLeanAboveEpsilon ==
    (Built /\ IsRamp(heightmap)) =>
        \A x \in 1..(W - 2), z \in 1..(H - 2) :
            LET n == mesh[1].normals[z * W + x + 1]
                raw == RawNormal(z * W + x)
            IN /\ raw[1] # 0
               /\ IF LongerThanEpsilon(raw, RawDim)
                  THEN n.dir[1] # 0
                  ELSE n = [dir |-> <<0, 1, 0>>, len2 |-> 1]

\* a ramp small enough for the guard to matter (scale 2 * 2^-14, slope 2 *
\* 2^-14 per cell), whose interior accumulator (-24, 24, 0) * 2^-28 is just
\* longer than f32::EPSILON
C10_Witness ==
    /\ Built /\ IsRamp(heightmap) /\ W = 3 /\ H = 3
    /\ builder.normal_method = "AreaWeighted"
    /\ unit_log = 14 /\ heightmap.scale = 2
    /\ LongerThanEpsilon(FaceSum(mesh[1], 4), 2)
    /\ mesh[1].normals[5] = [dir |-> <<-24, 24, 0>>, len2 |-> 1152]

\* C14: every normal output by build, for both methods, is the unnormalized
\* vector divided by its own length (a unit vector) when that length exceeds
\* machine epsilon, and exactly (0,1,0) otherwise; nothing else is emitted.
C14_UnitOrUp ==
    Built =>
        \A v \in 0..(W * H - 1) :
            LET n == mesh[1].normals[v + 1]
                raw == RawNormal(v)
            IN /\ Vec3Dot(n.dir, n.dir) = n.len2
               /\ IF LongerThanEpsilon(raw, RawDim)
                  THEN n.dir = raw
                  ELSE n.dir = <<0, 1, 0>> /\ n.len2 = 1

\* one mesh with both outcomes: the corner vertex 0 has the non-zero
\* accumulator (-4, 4, 0) * 2^-28, not longer than f32::EPSILON, and gets
\* (0,1,0); the interior vertex 4 has (-24, 24, 0) * 2^-28 and gets it
\* divided by its length
C14_Witness ==
    /\ Built /\ builder.normal_method = "AreaWeighted"
    /\ W = 3 /\ H = 3 /\ heightmap.scale = 2 /\ IsRamp(heightmap)
    /\ unit_log = 14
    /\ FaceSum(mesh[1], 0) = <<-4, 4, 0>>
    /\ ~LongerThanEpsilon(FaceSum(mesh[1], 0), 2)
    /\ mesh[1].normals[1] = [dir |-> <<0, 1, 0>>, len2 |-> 1]
    /\ LongerThanEpsilon(FaceSum(mesh[1], 4), 2)
    /\ mesh[1].normals[5] = [dir |-> <<-24, 24, 0>>, len2 |-> 1152]

\* C15: after any sequence of weight-map replacements, mark_dirty calls and
\* syncs, every sync that uploads leaves the image with declared width and
\* height equal to the current weight map's and w*h*4 bytes of data.
C15_UploadKeepsDimensions ==
    (last_call = "sync_uploaded" /\ images # <<>>) =>
        /\ Image.width = settings.weight_map.width
        /\ Image.height = settings.weight_map.height
        /\ Len(Image.data) =
              settings.weight_map.width * settings.weight_map.height * 4
====
